---- MODULE Spec2Model ----
(***************************************************************************)
(* The two-stage batch pipeline of the repository:                         *)
(*   stage 1, analyze_thermo.py: load_and_clean_thermo_data_robust and the *)
(*            __main__ block that saves cleaned_thermo_data.csv and plots; *)
(*   stage 2, combined_data.py: combine_and_create_features, which joins   *)
(*            the cleaned table with the structural counts.                *)
(* Text is modelled at character level: a line is a sequence of characters *)
(* (without its line terminator; open(..., 'r') translates every newline   *)
(* form to "\n", which strip() removes), a file is a record                *)
(* [exists, content] with content a sequence of lines.  A character is a   *)
(* one-character string; a code point that has no string literal is named  *)
(* "U+XXXX" (superscript two is "U+00B2", no-break space is "U+00A0").     *)
(* A table cell is a record [kind, num, den, text]:                        *)
(*   "int"   the integer num (den = 1);                                    *)
(*   "float" the number num/den in lowest terms, den > 0;                  *)
(*   "inf"   the float infinity of sign num;                               *)
(*   "nan"   the missing value NaN;                                        *)
(*   "bool"  True (num = 1) or False (num = 0);                            *)
(*   "str"   the string text.                                              *)
(* neg marks the float -0.0.  Floats are exact rationals: binary rounding, *)
(* integers beyond the machine range, and the quote character of the CSV   *)
(* dialect are not modelled.                                               *)
(***************************************************************************)
EXTENDS Integers, Sequences, FiniteSets, TLC

VARIABLES
    log,                \* output/thermo_data.dat
    cleanedFile,        \* output/cleaned_thermo_data.csv
    structFile,         \* output/structural_features.txt
    finalFile,          \* output/final_ml_dataset.csv
    pc1,                \* position of stage 1 (__main__ of analyze_thermo.py)
    lines,              \* f.readlines()
    header_indices,
    hpos,               \* position of the for loop over header_indices
    i,                  \* index of the inner scan loop (1-based)
    current_data_lines,
    data_blocks,
    df,                 \* the DataFrame of stage 1
    err1,               \* message printed by an except clause of stage 1
    pc2,                \* position of stage 2 (combine_and_create_features)
    df_thermo,
    df_struct,
    df_final,
    err2,               \* what stage 2 printed before it returned, or the
                        \* exception that ended it
    scanned,            \* history: per finished header, the line indices taken
    cur_idx,            \* history: line indices appended for the current header
    concat_df,          \* history: the table pd.concat returned
    cleaned0,           \* history: cleanedFile when the run started
    final0,             \* history: finalFile when the run started
    written1,           \* history: stage 1 executed its to_csv
    written2            \* history: stage 2 executed its to_csv

vars == <<log, cleanedFile, structFile, finalFile, pc1, lines, header_indices,
          hpos, i, current_data_lines, data_blocks, df, err1, pc2, df_thermo,
          df_struct, df_final, err2, scanned, cur_idx, concat_df, cleaned0,
          final0, written1, written2>>

stage1vars == <<pc1, lines, header_indices, hpos, i, current_data_lines,
                data_blocks, df, err1, scanned, cur_idx, concat_df, written1>>

stage2vars == <<pc2, df_thermo, df_struct, df_final, err2, written2>>

-----------------------------------------------------------------------------
(* Bounds of the model and program constants *)

MaxLines == 4

MaxStructRows == 2

NUM_ATOMS == 256

NumThermoColumns == 6

NumStructColumns == 6

-----------------------------------------------------------------------------
(* Python str operations on character sequences *)

\* The ASCII digits
Digit == {"0", "1", "2", "3", "4", "5", "6", "7", "8", "9"}

DigitVal(c) ==
    CASE c = "0" -> 0 [] c = "1" -> 1 [] c = "2" -> 2 [] c = "3" -> 3
      [] c = "4" -> 4 [] c = "5" -> 5 [] c = "6" -> 6 [] c = "7" -> 7
      [] c = "8" -> 8 [] c = "9" -> 9

\* The decimal digits outside ASCII (Unicode category Nd: Arabic-Indic,
\* Devanagari, Thai, fullwidth digits and the like): str.isdigit() accepts
\* them and int() reads them
UnicodeDecimalDigit ==
    {"U+0660", "U+0661", "U+0662", "U+0663", "U+0664", "U+0665", "U+0666",
     "U+0667", "U+0668", "U+0669", "U+06F0", "U+06F1", "U+06F2", "U+06F3",
     "U+06F4", "U+06F5", "U+06F6", "U+06F7", "U+06F8", "U+06F9", "U+07C0",
     "U+07C1", "U+07C2", "U+07C3", "U+07C4", "U+07C5", "U+07C6", "U+07C7",
     "U+07C8", "U+07C9", "U+0966", "U+0967", "U+0968", "U+0969", "U+096A",
     "U+096B", "U+096C", "U+096D", "U+096E", "U+096F", "U+09E6", "U+09E7",
     "U+09E8", "U+09E9", "U+09EA", "U+09EB", "U+09EC", "U+09ED", "U+09EE",
     "U+09EF", "U+0A66", "U+0A67", "U+0A68", "U+0A69", "U+0A6A", "U+0A6B",
     "U+0A6C", "U+0A6D", "U+0A6E", "U+0A6F", "U+0AE6", "U+0AE7", "U+0AE8",
     "U+0AE9", "U+0AEA", "U+0AEB", "U+0AEC", "U+0AED", "U+0AEE", "U+0AEF",
     "U+0B66", "U+0B67", "U+0B68", "U+0B69", "U+0B6A", "U+0B6B", "U+0B6C",
     "U+0B6D", "U+0B6E", "U+0B6F", "U+0BE6", "U+0BE7", "U+0BE8", "U+0BE9",
     "U+0BEA", "U+0BEB", "U+0BEC", "U+0BED", "U+0BEE", "U+0BEF", "U+0C66",
     "U+0C67", "U+0C68", "U+0C69", "U+0C6A", "U+0C6B", "U+0C6C", "U+0C6D",
     "U+0C6E", "U+0C6F", "U+0CE6", "U+0CE7", "U+0CE8", "U+0CE9", "U+0CEA",
     "U+0CEB", "U+0CEC", "U+0CED", "U+0CEE", "U+0CEF", "U+0D66", "U+0D67",
     "U+0D68", "U+0D69", "U+0D6A", "U+0D6B", "U+0D6C", "U+0D6D", "U+0D6E",
     "U+0D6F", "U+0DE6", "U+0DE7", "U+0DE8", "U+0DE9", "U+0DEA", "U+0DEB",
     "U+0DEC", "U+0DED", "U+0DEE", "U+0DEF", "U+0E50", "U+0E51", "U+0E52",
     "U+0E53", "U+0E54", "U+0E55", "U+0E56", "U+0E57", "U+0E58", "U+0E59",
     "U+0ED0", "U+0ED1", "U+0ED2", "U+0ED3", "U+0ED4", "U+0ED5", "U+0ED6",
     "U+0ED7", "U+0ED8", "U+0ED9", "U+0F20", "U+0F21", "U+0F22", "U+0F23",
     "U+0F24", "U+0F25", "U+0F26", "U+0F27", "U+0F28", "U+0F29", "U+1040",
     "U+1041", "U+1042", "U+1043", "U+1044", "U+1045", "U+1046", "U+1047",
     "U+1048", "U+1049", "U+1090", "U+1091", "U+1092", "U+1093", "U+1094",
     "U+1095", "U+1096", "U+1097", "U+1098", "U+1099", "U+17E0", "U+17E1",
     "U+17E2", "U+17E3", "U+17E4", "U+17E5", "U+17E6", "U+17E7", "U+17E8",
     "U+17E9", "U+1810", "U+1811", "U+1812", "U+1813", "U+1814", "U+1815",
     "U+1816", "U+1817", "U+1818", "U+1819", "U+1946", "U+1947", "U+1948",
     "U+1949", "U+194A", "U+194B", "U+194C", "U+194D", "U+194E", "U+194F",
     "U+19D0", "U+19D1", "U+19D2", "U+19D3", "U+19D4", "U+19D5", "U+19D6",
     "U+19D7", "U+19D8", "U+19D9", "U+1A80", "U+1A81", "U+1A82", "U+1A83",
     "U+1A84", "U+1A85", "U+1A86", "U+1A87", "U+1A88", "U+1A89", "U+1A90",
     "U+1A91", "U+1A92", "U+1A93", "U+1A94", "U+1A95", "U+1A96", "U+1A97",
     "U+1A98", "U+1A99", "U+1B50", "U+1B51", "U+1B52", "U+1B53", "U+1B54",
     "U+1B55", "U+1B56", "U+1B57", "U+1B58", "U+1B59", "U+1BB0", "U+1BB1",
     "U+1BB2", "U+1BB3", "U+1BB4", "U+1BB5", "U+1BB6", "U+1BB7", "U+1BB8",
     "U+1BB9", "U+1C40", "U+1C41", "U+1C42", "U+1C43", "U+1C44", "U+1C45",
     "U+1C46", "U+1C47", "U+1C48", "U+1C49", "U+1C50", "U+1C51", "U+1C52",
     "U+1C53", "U+1C54", "U+1C55", "U+1C56", "U+1C57", "U+1C58", "U+1C59",
     "U+A620", "U+A621", "U+A622", "U+A623", "U+A624", "U+A625", "U+A626",
     "U+A627", "U+A628", "U+A629", "U+A8D0", "U+A8D1", "U+A8D2", "U+A8D3",
     "U+A8D4", "U+A8D5", "U+A8D6", "U+A8D7", "U+A8D8", "U+A8D9", "U+A900",
     "U+A901", "U+A902", "U+A903", "U+A904", "U+A905", "U+A906", "U+A907",
     "U+A908", "U+A909", "U+A9D0", "U+A9D1", "U+A9D2", "U+A9D3", "U+A9D4",
     "U+A9D5", "U+A9D6", "U+A9D7", "U+A9D8", "U+A9D9", "U+A9F0", "U+A9F1",
     "U+A9F2", "U+A9F3", "U+A9F4", "U+A9F5", "U+A9F6", "U+A9F7", "U+A9F8",
     "U+A9F9", "U+AA50", "U+AA51", "U+AA52", "U+AA53", "U+AA54", "U+AA55",
     "U+AA56", "U+AA57", "U+AA58", "U+AA59", "U+ABF0", "U+ABF1", "U+ABF2",
     "U+ABF3", "U+ABF4", "U+ABF5", "U+ABF6", "U+ABF7", "U+ABF8", "U+ABF9",
     "U+FF10", "U+FF11", "U+FF12", "U+FF13", "U+FF14", "U+FF15", "U+FF16",
     "U+FF17", "U+FF18", "U+FF19", "U+104A0", "U+104A1", "U+104A2",
     "U+104A3", "U+104A4", "U+104A5", "U+104A6", "U+104A7", "U+104A8",
     "U+104A9", "U+10D30", "U+10D31", "U+10D32", "U+10D33", "U+10D34",
     "U+10D35", "U+10D36", "U+10D37", "U+10D38", "U+10D39", "U+11066",
     "U+11067", "U+11068", "U+11069", "U+1106A", "U+1106B", "U+1106C",
     "U+1106D", "U+1106E", "U+1106F", "U+110F0", "U+110F1", "U+110F2",
     "U+110F3", "U+110F4", "U+110F5", "U+110F6", "U+110F7", "U+110F8",
     "U+110F9", "U+11136", "U+11137", "U+11138", "U+11139", "U+1113A",
     "U+1113B", "U+1113C", "U+1113D", "U+1113E", "U+1113F", "U+111D0",
     "U+111D1", "U+111D2", "U+111D3", "U+111D4", "U+111D5", "U+111D6",
     "U+111D7", "U+111D8", "U+111D9", "U+112F0", "U+112F1", "U+112F2",
     "U+112F3", "U+112F4", "U+112F5", "U+112F6", "U+112F7", "U+112F8",
     "U+112F9", "U+11450", "U+11451", "U+11452", "U+11453", "U+11454",
     "U+11455", "U+11456", "U+11457", "U+11458", "U+11459", "U+114D0",
     "U+114D1", "U+114D2", "U+114D3", "U+114D4", "U+114D5", "U+114D6",
     "U+114D7", "U+114D8", "U+114D9", "U+11650", "U+11651", "U+11652",
     "U+11653", "U+11654", "U+11655", "U+11656", "U+11657", "U+11658",
     "U+11659", "U+116C0", "U+116C1", "U+116C2", "U+116C3", "U+116C4",
     "U+116C5", "U+116C6", "U+116C7", "U+116C8", "U+116C9", "U+11730",
     "U+11731", "U+11732", "U+11733", "U+11734", "U+11735", "U+11736",
     "U+11737", "U+11738", "U+11739", "U+118E0", "U+118E1", "U+118E2",
     "U+118E3", "U+118E4", "U+118E5", "U+118E6", "U+118E7", "U+118E8",
     "U+118E9", "U+11950", "U+11951", "U+11952", "U+11953", "U+11954",
     "U+11955", "U+11956", "U+11957", "U+11958", "U+11959", "U+11C50",
     "U+11C51", "U+11C52", "U+11C53", "U+11C54", "U+11C55", "U+11C56",
     "U+11C57", "U+11C58", "U+11C59", "U+11D50", "U+11D51", "U+11D52",
     "U+11D53", "U+11D54", "U+11D55", "U+11D56", "U+11D57", "U+11D58",
     "U+11D59", "U+11DA0", "U+11DA1", "U+11DA2", "U+11DA3", "U+11DA4",
     "U+11DA5", "U+11DA6", "U+11DA7", "U+11DA8", "U+11DA9", "U+16A60",
     "U+16A61", "U+16A62", "U+16A63", "U+16A64", "U+16A65", "U+16A66",
     "U+16A67", "U+16A68", "U+16A69", "U+16AC0", "U+16AC1", "U+16AC2",
     "U+16AC3", "U+16AC4", "U+16AC5", "U+16AC6", "U+16AC7", "U+16AC8",
     "U+16AC9", "U+16B50", "U+16B51", "U+16B52", "U+16B53", "U+16B54",
     "U+16B55", "U+16B56", "U+16B57", "U+16B58", "U+16B59", "U+1D7CE",
     "U+1D7CF", "U+1D7D0", "U+1D7D1", "U+1D7D2", "U+1D7D3", "U+1D7D4",
     "U+1D7D5", "U+1D7D6", "U+1D7D7", "U+1D7D8", "U+1D7D9", "U+1D7DA",
     "U+1D7DB", "U+1D7DC", "U+1D7DD", "U+1D7DE", "U+1D7DF", "U+1D7E0",
     "U+1D7E1", "U+1D7E2", "U+1D7E3", "U+1D7E4", "U+1D7E5", "U+1D7E6",
     "U+1D7E7", "U+1D7E8", "U+1D7E9", "U+1D7EA", "U+1D7EB", "U+1D7EC",
     "U+1D7ED", "U+1D7EE", "U+1D7EF", "U+1D7F0", "U+1D7F1", "U+1D7F2",
     "U+1D7F3", "U+1D7F4", "U+1D7F5", "U+1D7F6", "U+1D7F7", "U+1D7F8",
     "U+1D7F9", "U+1D7FA", "U+1D7FB", "U+1D7FC", "U+1D7FD", "U+1D7FE",
     "U+1D7FF", "U+1E140", "U+1E141", "U+1E142", "U+1E143", "U+1E144",
     "U+1E145", "U+1E146", "U+1E147", "U+1E148", "U+1E149", "U+1E2F0",
     "U+1E2F1", "U+1E2F2", "U+1E2F3", "U+1E2F4", "U+1E2F5", "U+1E2F6",
     "U+1E2F7", "U+1E2F8", "U+1E2F9", "U+1E950", "U+1E951", "U+1E952",
     "U+1E953", "U+1E954", "U+1E955", "U+1E956", "U+1E957", "U+1E958",
     "U+1E959", "U+1FBF0", "U+1FBF1", "U+1FBF2", "U+1FBF3", "U+1FBF4",
     "U+1FBF5", "U+1FBF6", "U+1FBF7", "U+1FBF8", "U+1FBF9"}

\* The digits that are no decimal digits (superscripts, subscripts, circled
\* and dotted digits and the like): str.isdigit() accepts them, int() does not
UnicodeOtherDigit ==
    {"U+00B2", "U+00B3", "U+00B9", "U+1369", "U+136A", "U+136B", "U+136C",
     "U+136D", "U+136E", "U+136F", "U+1370", "U+1371", "U+19DA", "U+2070",
     "U+2074", "U+2075", "U+2076", "U+2077", "U+2078", "U+2079", "U+2080",
     "U+2081", "U+2082", "U+2083", "U+2084", "U+2085", "U+2086", "U+2087",
     "U+2088", "U+2089", "U+2460", "U+2461", "U+2462", "U+2463", "U+2464",
     "U+2465", "U+2466", "U+2467", "U+2468", "U+2474", "U+2475", "U+2476",
     "U+2477", "U+2478", "U+2479", "U+247A", "U+247B", "U+247C", "U+2488",
     "U+2489", "U+248A", "U+248B", "U+248C", "U+248D", "U+248E", "U+248F",
     "U+2490", "U+24EA", "U+24F5", "U+24F6", "U+24F7", "U+24F8", "U+24F9",
     "U+24FA", "U+24FB", "U+24FC", "U+24FD", "U+24FF", "U+2776", "U+2777",
     "U+2778", "U+2779", "U+277A", "U+277B", "U+277C", "U+277D", "U+277E",
     "U+2780", "U+2781", "U+2782", "U+2783", "U+2784", "U+2785", "U+2786",
     "U+2787", "U+2788", "U+278A", "U+278B", "U+278C", "U+278D", "U+278E",
     "U+278F", "U+2790", "U+2791", "U+2792", "U+10A40", "U+10A41", "U+10A42",
     "U+10A43", "U+10E60", "U+10E61", "U+10E62", "U+10E63", "U+10E64",
     "U+10E65", "U+10E66", "U+10E67", "U+10E68", "U+11052", "U+11053",
     "U+11054", "U+11055", "U+11056", "U+11057", "U+11058", "U+11059",
     "U+1105A", "U+1F100", "U+1F101", "U+1F102", "U+1F103", "U+1F104",
     "U+1F105", "U+1F106", "U+1F107", "U+1F108", "U+1F109", "U+1F10A"}

\* The characters str.strip() and str.split() take as whitespace
WHITESPACE ==
    {" ", "\t", "\n", "\r", "\f", "U+000B", "U+001C", "U+001D", "U+001E",
     "U+001F", "U+0085", "U+00A0", "U+1680", "U+2000", "U+2001", "U+2002",
     "U+2003", "U+2004", "U+2005", "U+2006", "U+2007", "U+2008", "U+2009",
     "U+200A", "U+2028", "U+2029", "U+202F", "U+205F", "U+3000"}

IsSpace(c) == c \in WHITESPACE

RECURSIVE LStripOf(_, _)
LStripOf(s, W) ==
    IF s = <<>> THEN s
    ELSE IF Head(s) \in W THEN LStripOf(Tail(s), W) ELSE s

RECURSIVE RStripOf(_, _)
RStripOf(s, W) ==
    IF s = <<>> THEN s
    ELSE IF s[Len(s)] \in W THEN RStripOf(SubSeq(s, 1, Len(s) - 1), W) ELSE s

LStrip(s) == LStripOf(s, WHITESPACE)

RStrip(s) == RStripOf(s, WHITESPACE)

\* str.strip()
Strip(s) == RStrip(LStrip(s))

\* str.startswith(prefix)
StartsWith(s, prefix) ==
    /\ Len(s) >= Len(prefix)
    /\ SubSeq(s, 1, Len(prefix)) = prefix

RECURSIVE SplitAcc(_, _, _, _)
\* The maximal runs of s without a character of W
SplitAcc(s, cur, acc, W) ==
    IF s = <<>>
    THEN IF cur = <<>> THEN acc ELSE Append(acc, cur)
    ELSE IF Head(s) \in W
         THEN SplitAcc(Tail(s), <<>>, IF cur = <<>> THEN acc ELSE Append(acc, cur), W)
         ELSE SplitAcc(Tail(s), Append(cur, Head(s)), acc, W)

\* str.split(): the whitespace-delimited tokens
Split(s) == SplitAcc(s, <<>>, <<>>, WHITESPACE)

\* str.isdigit()
IsDigitStr(tok) ==
    /\ tok # <<>>
    /\ \A k \in 1..Len(tok) :
          tok[k] \in Digit \cup UnicodeDecimalDigit \cup UnicodeOtherDigit

RECURSIVE DigitsValue(_, _)
DigitsValue(tok, acc) ==
    IF tok = <<>> THEN acc
    ELSE DigitsValue(Tail(tok), 10 * acc + DigitVal(Head(tok)))

\* The first occurrence of character c removed: str.replace(c, '', 1)
RECURSIVE RemoveFirst(_, _)
RemoveFirst(s, c) ==
    IF s = <<>> THEN s
    ELSE IF Head(s) = c THEN Tail(s) ELSE <<Head(s)>> \o RemoveFirst(Tail(s), c)

-----------------------------------------------------------------------------
(* Table cells *)

Abs(n) == IF n < 0 THEN 0 - n ELSE n

RECURSIVE GCD(_, _)
GCD(a, b) == IF b = 0 THEN a ELSE GCD(b, a % b)

Num(n) == [kind |-> "int", num |-> n, den |-> 1, text |-> <<>>, neg |-> FALSE]

\* The float n/d (d > 0), in lowest terms
Float(n, d) ==
    LET g == GCD(Abs(n), d)
    IN  [kind |-> "float", num |-> n \div g, den |-> d \div g, text |-> <<>>, neg |-> FALSE]

Inf(sign) == [kind |-> "inf", num |-> sign, den |-> 1, text |-> <<>>, neg |-> FALSE]

\* The float -0.0
NegZero == [kind |-> "float", num |-> 0, den |-> 1, text |-> <<>>, neg |-> TRUE]

NaN == [kind |-> "nan", num |-> 0, den |-> 1, text |-> <<>>, neg |-> FALSE]

Bool(b) ==
    [kind |-> "bool", num |-> IF b THEN 1 ELSE 0, den |-> 1, text |-> <<>>, neg |-> FALSE]

StrCell(t) == [kind |-> "str", num |-> 0, den |-> 1, text |-> t, neg |-> FALSE]

Max(a, b) == IF a >= b THEN a ELSE b

Min(a, b) == IF a <= b THEN a ELSE b

\* Two cells hold the same value: numbers by value whatever their type, NaN
\* with NaN (as pandas' hash tables have it), strings by text
SameValue(a, b) ==
    IF a.kind \in {"int", "float", "bool"} /\ b.kind \in {"int", "float", "bool"}
    THEN a.num * b.den = b.num * a.den
    ELSE IF a.kind = "str" /\ b.kind = "str" THEN a.text = b.text
    ELSE IF a.kind = "inf" /\ b.kind = "inf" THEN a.num = b.num
    ELSE a.kind = "nan" /\ b.kind = "nan"

\* Series / scalar on one element: a number gives a float, NaN stays NaN; a
\* str element raises TypeError (see HasStr)
DivCell(c, n) ==
    IF c.kind \in {"int", "float", "bool"} /\ ~c.neg
    THEN Float(c.num, c.den * n)
    ELSE c

\* Series + Series on one pair of elements raises TypeError: a str with a
\* number (a pair with a NaN is masked out and gives NaN)
AddRaises(a, b) ==
    /\ a.kind # "nan"
    /\ b.kind # "nan"
    /\ (a.kind = "str") # (b.kind = "str")

\* Series + Series on one pair of elements that does not raise
AddCell(a, b) ==
    IF a.kind = "nan" \/ b.kind = "nan" THEN NaN
    ELSE IF a.kind = "str" /\ b.kind = "str" THEN StrCell(a.text \o b.text)
    ELSE IF a.kind = "inf" /\ b.kind = "inf"
         THEN IF a.num = b.num THEN a ELSE NaN
    ELSE IF a.kind = "inf" THEN a
    ELSE IF b.kind = "inf" THEN b
    ELSE IF a.neg /\ b.neg THEN NegZero
    ELSE IF a.kind = "float" \/ b.kind = "float"
         THEN Float(a.num * b.den + b.num * a.den, a.den * b.den)
    ELSE Num(a.num + b.num)

-----------------------------------------------------------------------------
(* The pandas C parser: tokenizer and type inference *)

\* The delimiters of sep=r'\s+' (delim_whitespace): space and tab only
DELIMITERS == {" ", "\t"}

\* The fields of one row
Fields(row) == SplitAcc(row, <<>>, <<>>, DELIMITERS)

\* A line the tokenizer skips (skip_blank_lines): empty, or delimiters only
IsBlankRow(row) == \A k \in 1..Len(row) : row[k] \in DELIMITERS

\* What the number converters skip around a field (isspace_ascii)
ASCII_SPACE == {" ", "\t", "\n", "U+000B", "\f", "\r"}

TrimAscii(tok) == RStripOf(LStripOf(tok, ASCII_SPACE), ASCII_SPACE)

\* The default na_values; the empty field is the first of them
NA_VALUES ==
    {<<>>,
     <<"#", "N", "/", "A", " ", "N", "/", "A">>,
     <<"#", "N", "/", "A">>,
     <<"#", "N", "A">>,
     <<"-", "1", ".", "#", "I", "N", "D">>,
     <<"-", "1", ".", "#", "Q", "N", "A", "N">>,
     <<"-", "N", "a", "N">>,
     <<"-", "n", "a", "n">>,
     <<"1", ".", "#", "I", "N", "D">>,
     <<"1", ".", "#", "Q", "N", "A", "N">>,
     <<"<", "N", "A", ">">>,
     <<"N", "/", "A">>,
     <<"N", "A">>,
     <<"N", "U", "L", "L">>,
     <<"N", "a", "N">>,
     <<"N", "o", "n", "e">>,
     <<"n", "/", "a">>,
     <<"n", "a", "n">>,
     <<"n", "u", "l", "l">>}

TRUE_WORD == <<"t", "r", "u", "e">>

FALSE_WORD == <<"f", "a", "l", "s", "e">>

INF_WORDS ==
    {<<"i", "n", "f">>, <<"+", "i", "n", "f">>, <<"-", "i", "n", "f">>,
     <<"i", "n", "f", "i", "n", "i", "t", "y">>,
     <<"+", "i", "n", "f", "i", "n", "i", "t", "y">>,
     <<"-", "i", "n", "f", "i", "n", "i", "t", "y">>}

LowerChar(c) ==
    CASE c = "A" -> "a" [] c = "B" -> "b" [] c = "C" -> "c" [] c = "D" -> "d"
      [] c = "E" -> "e" [] c = "F" -> "f" [] c = "G" -> "g" [] c = "H" -> "h"
      [] c = "I" -> "i" [] c = "J" -> "j" [] c = "K" -> "k" [] c = "L" -> "l"
      [] c = "M" -> "m" [] c = "N" -> "n" [] c = "O" -> "o" [] c = "P" -> "p"
      [] c = "Q" -> "q" [] c = "R" -> "r" [] c = "S" -> "s" [] c = "T" -> "t"
      [] c = "U" -> "u" [] c = "V" -> "v" [] c = "W" -> "w" [] c = "X" -> "x"
      [] c = "Y" -> "y" [] c = "Z" -> "z" [] OTHER -> c

\* The word compared without regard to case (strcasecmp)
Lower(tok) == [k \in 1..Len(tok) |-> LowerChar(tok[k])]

\* The boolean words: the sets True/TRUE/true and False/FALSE/false are tried
\* first and to_boolean() then compares with TRUE and FALSE without regard to
\* case, so that every case variant of the two words is taken
IsTrueWord(tok) == Lower(tok) = TRUE_WORD

IsFalseWord(tok) == Lower(tok) = FALSE_WORD

AllDigits(s) == \A k \in 1..Len(s) : s[k] \in Digit

\* s without its leading sign
Unsigned(s) ==
    IF s = <<>> THEN s
    ELSE IF Head(s) \in {"+", "-"} THEN Tail(s) ELSE s

\* The first position of s with a character of C, 0 when there is none
IndexOf(s, C) ==
    IF \E k \in 1..Len(s) : s[k] \in C
    THEN CHOOSE k \in 1..Len(s) :
            s[k] \in C /\ \A j \in 1..(k - 1) : s[j] \notin C
    ELSE 0

\* str_to_int64: an optional sign and at least one ASCII digit
IsIntTok(tok) ==
    LET s == Unsigned(TrimAscii(tok))
    IN  s # <<>> /\ AllDigits(s)

IntValue(tok) ==
    LET t == TrimAscii(tok)
    IN  IF Head(t) = "-" THEN 0 - DigitsValue(Tail(t), 0)
        ELSE DigitsValue(Unsigned(t), 0)

\* Digits with at most one decimal point and at least one digit
IsMantissa(m) ==
    LET p == IndexOf(m, {"."})
        ip == IF p = 0 THEN m ELSE SubSeq(m, 1, p - 1)
        fp == IF p = 0 THEN <<>> ELSE SubSeq(m, p + 1, Len(m))
    IN  AllDigits(ip) /\ AllDigits(fp) /\ Len(ip) + Len(fp) > 0

\* xstrtod: sign, mantissa, and an exponent that has digits when it is there
IsDecimalTok(tok) ==
    LET s == Unsigned(TrimAscii(tok))
        p == IndexOf(s, {"e", "E"})
    IN  IF p = 0 THEN IsMantissa(s)
        ELSE /\ IsMantissa(SubSeq(s, 1, p - 1))
             /\ IsIntTok(SubSeq(s, p + 1, Len(s)))
             /\ SubSeq(s, p + 1, Len(s)) = TrimAscii(SubSeq(s, p + 1, Len(s)))

IsFloatTok(tok) == Lower(tok) \in INF_WORDS \/ IsDecimalTok(tok)

RECURSIVE Pow10(_)
Pow10(k) == IF k = 0 THEN 1 ELSE 10 * Pow10(k - 1)

\* The float a numeric field denotes
FloatValue(tok) ==
    IF Lower(tok) \in INF_WORDS
    THEN Inf(IF Head(tok) = "-" THEN 0 - 1 ELSE 1)
    ELSE LET t == TrimAscii(tok)
             s == Unsigned(t)
             p == IndexOf(s, {"e", "E"})
             m == IF p = 0 THEN s ELSE SubSeq(s, 1, p - 1)
             d == IndexOf(m, {"."})
             ip == IF d = 0 THEN m ELSE SubSeq(m, 1, d - 1)
             fp == IF d = 0 THEN <<>> ELSE SubSeq(m, d + 1, Len(m))
             mant == DigitsValue(ip \o fp, 0)
             signed == IF Head(t) = "-" THEN 0 - mant ELSE mant
             ex == (IF p = 0 THEN 0 ELSE IntValue(SubSeq(s, p + 1, Len(s))))
                   - Len(fp)
         IN  IF mant = 0 THEN (IF Head(t) = "-" THEN NegZero ELSE Float(0, 1))
             ELSE IF ex >= 0 THEN Float(signed * Pow10(ex), 1)
             ELSE Float(signed, Pow10(0 - ex))

\* How the converters take one field, tried in the parser's order
FieldClass(tok) ==
    IF tok \in NA_VALUES THEN "na"
    ELSE IF IsIntTok(tok) THEN "int"
    ELSE IF IsFloatTok(tok) THEN "float"
    ELSE IF IsTrueWord(tok) \/ IsFalseWord(tok) THEN "bool"
    ELSE "str"

\* The dtype of a column from the classes of its fields: int64 without a
\* missing field, float64 for numbers with missing fields or floats, bool, and
\* object for everything else
ColumnDtype(classes) ==
    IF classes \subseteq {"int"} THEN "int64"
    ELSE IF classes \subseteq {"int", "float", "na"} THEN "float64"
    ELSE IF classes \subseteq {"bool"} THEN "bool"
    ELSE "object"

\* The cell of one field in a column whose fields have the given classes: in
\* an object column the boolean words stay booleans when the rest is missing,
\* and every present field is a string otherwise.  A column of integers with
\* missing fields is parsed as integers and then upcast to float64
ConvertField(tok, classes) ==
    LET dt == ColumnDtype(classes)
    IN  CASE dt = "int64" -> Num(IntValue(tok))
          [] dt = "float64" ->
                IF tok \in NA_VALUES THEN NaN
                ELSE IF classes \subseteq {"int", "na"} THEN Float(IntValue(tok), 1)
                ELSE FloatValue(tok)
          [] dt = "bool" -> Bool(IsTrueWord(tok))
          [] OTHER ->
                IF tok \in NA_VALUES THEN NaN
                ELSE IF classes \subseteq {"bool", "na"} THEN Bool(IsTrueWord(tok))
                ELSE StrCell(tok)

\* Field c of row r; a row that is too short is padded with empty fields
FieldAt(toks, r, c) == IF c > Len(toks[r]) THEN <<>> ELSE toks[r][c]

\* One cell of a tokenized table: the type is decided for the whole column
ColumnCell(toks, r, c) ==
    ConvertField(FieldAt(toks, r, c),
                 {FieldClass(FieldAt(toks, q, c)) : q \in 1..Len(toks)})

\* The tokenizer's field-count rule: the first data row is exempt and fixes,
\* with the count given, the expected number of fields; a later row with
\* more fields is "Error tokenizing data", a row with fewer is padded.
TooManyFields(toks, count) ==
    \E r \in 2..Len(toks) : Len(toks[r]) > Max(Len(toks[1]), count)

-----------------------------------------------------------------------------
(* Files, errors *)

File(content) == [exists |-> TRUE, content |-> content]

Absent == [exists |-> FALSE, content |-> <<>>]

Raised(type, msg) == [type |-> type, msg |-> msg]

NoError == Raised("", "")

NoHeaderFound ==
    Raised("ValueError", "Could not find any 'Step' header lines in the thermo file.")

NoExtractableData ==
    Raised("ValueError",
           "Found headers but could not extract any valid numerical data blocks.")

ParserError == Raised("ParserError", "Error tokenizing data. C error: Expected fields")

TypeError == Raised("TypeError", "unsupported operand type(s) for /: 'str' and 'int'")

ThermoNotFound == Raised("FileNotFoundError", "output/thermo_data.dat")

PlotTypeError ==
    Raised("TypeError", "'>=' not supported between instances of 'str' and 'int'")

PlotFailed == Raised("Exception", "plot_thermo_data")

CLEANED_COLUMNS ==
    <<"Step", "Temp", "PotEng", "TotEng", "Press", "Density", "PE_per_atom",
      "E_per_atom">>

\* DataFrame.to_csv(path, index=False): a header row of column labels, then
\* the fields of each row in column order.  A field is kept as the cell it is
\* written from; its text is FieldText of the cell.
ToCsv(t, columns) ==
    [header |-> columns,
     rows   |-> [r \in 1..Len(t) |-> [c \in 1..Len(columns) |-> t[r][columns[c]]]]]

\* repr() of a float: the decimals up to which, and the digits before the
\* point up to which, the notation is positional
ReprMinDecimals == 4

ReprMaxDigits == 16

DigitChar(d) ==
    CASE d = 0 -> "0" [] d = 1 -> "1" [] d = 2 -> "2" [] d = 3 -> "3"
      [] d = 4 -> "4" [] d = 5 -> "5" [] d = 6 -> "6" [] d = 7 -> "7"
      [] d = 8 -> "8" [] d = 9 -> "9"

RECURSIVE NatText(_)
NatText(n) ==
    IF n < 10 THEN <<DigitChar(n)>>
    ELSE NatText(n \div 10) \o <<DigitChar(n % 10)>>

RECURSIVE FracText(_, _)
\* The decimals of rem/den, for 0 <= rem < den
FracText(rem, den) ==
    IF rem = 0 THEN <<>>
    ELSE <<DigitChar((rem * 10) \div den)>> \o FracText((rem * 10) % den, den)

RECURSIVE LeadingZeros(_)
LeadingZeros(s) ==
    IF s = <<>> THEN 0
    ELSE IF Head(s) = "0" THEN 1 + LeadingZeros(Tail(s)) ELSE 0

RECURSIVE RStripZeros(_)
RStripZeros(s) ==
    IF s = <<>> THEN s
    ELSE IF s[Len(s)] = "0" THEN RStripZeros(SubSeq(s, 1, Len(s) - 1)) ELSE s

\* The exponent of repr(): a sign and at least two digits
ExponentText(e) ==
    (IF e < 0 THEN <<"-">> ELSE <<"+">>)
    \o (IF Abs(e) < 10 THEN <<"0">> ELSE <<>>) \o NatText(Abs(e))

\* The significant digits ds times ten to the e, first digit before the point
Scientific(ds, e) ==
    <<Head(ds)>> \o (IF Len(ds) > 1 THEN <<".">> \o Tail(ds) ELSE <<>>)
    \o <<"e">> \o ExponentText(e)

\* repr() of the float a/den, a >= 0: exponent notation below 1e-4 and from
\* 1e16 on, positional notation with at least one decimal otherwise
FloatText(a, den) ==
    LET ip == NatText(a \div den)
        fp == FracText(a % den, den)
        z  == LeadingZeros(fp)
    IN  IF a = 0 THEN <<"0", ".", "0">>
        ELSE IF a < den /\ z >= ReprMinDecimals
             THEN Scientific(SubSeq(fp, z + 1, Len(fp)), 0 - (z + 1))
        ELSE IF Len(ip) > ReprMaxDigits
             THEN Scientific(RStripZeros(ip \o fp), Len(ip) - 1)
        ELSE ip \o <<".">> \o (IF fp = <<>> THEN <<"0">> ELSE fp)

\* The text to_csv writes for a cell: str() of an int, of a bool and of a
\* string, repr() of a float, nothing for NaN
FieldText(c) ==
    LET sign == IF c.num < 0 \/ c.neg THEN <<"-">> ELSE <<>>
        a == Abs(c.num)
    IN  CASE c.kind = "int" -> sign \o NatText(a)
          [] c.kind = "float" -> sign \o FloatText(a, c.den)
          [] c.kind = "inf" -> sign \o <<"i", "n", "f">>
          [] c.kind = "bool" ->
                IF c.num = 1 THEN <<"T", "r", "u", "e">>
                ELSE <<"F", "a", "l", "s", "e">>
          [] c.kind = "str" -> c.text
          [] OTHER -> <<>>

\* How the converters take the field written from a cell
WrittenClass(c) ==
    CASE c.kind = "int" -> "int"
      [] c.kind \in {"float", "inf"} -> "float"
      [] c.kind = "nan" -> "na"
      [] c.kind = "bool" -> "bool"
      [] OTHER -> FieldClass(c.text)

\* The cell read back from a written field, in a column whose fields have
\* the given classes
ReadField(c, classes) ==
    LET dt == ColumnDtype(classes)
    IN  CASE dt = "int64" -> IF c.kind = "int" THEN c ELSE Num(IntValue(c.text))
          [] dt = "float64" ->
                IF WrittenClass(c) = "na" THEN NaN
                ELSE IF c.kind = "int" THEN Float(c.num, 1)
                ELSE IF c.kind = "str"
                     THEN (IF classes \subseteq {"int", "na"}
                           THEN Float(IntValue(c.text), 1)
                           ELSE FloatValue(c.text))
                ELSE c
          [] dt = "bool" ->
                IF c.kind = "bool" THEN c ELSE Bool(IsTrueWord(c.text))
          [] OTHER ->
                IF WrittenClass(c) = "na" THEN NaN
                ELSE IF classes \subseteq {"bool", "na"}
                     THEN (IF c.kind = "bool" THEN c ELSE Bool(IsTrueWord(c.text)))
                ELSE StrCell(FieldText(c))

ColumnIndex(header, name) == CHOOSE c \in 1..Len(header) : header[c] = name

\* pd.read_csv(path): the first row names the columns, and the type of each
\* column is inferred from all its fields
ReadCsv(csv) ==
    [r \in 1..Len(csv.rows) |->
        [name \in {csv.header[c] : c \in 1..Len(csv.header)} |->
            LET c == ColumnIndex(csv.header, name)
            IN  ReadField(csv.rows[r][c],
                          {WrittenClass(csv.rows[q][c]) : q \in 1..Len(csv.rows)})]]

-----------------------------------------------------------------------------
(* Stage 1: load_and_clean_thermo_data_robust.  Line indices are 1-based:  *)
(* index k here is Python index k-1.                                       *)

HEADER_KEYWORD == <<"S", "t", "e", "p">>

THERMO_COLUMNS == <<"Step", "Temp", "PotEng", "TotEng", "Press", "Density">>

\* Variant: the first token must equal the keyword
IsHeaderLineExactToken(line) ==
    /\ Strip(line) # <<>>
    /\ Split(Strip(line))[1] = HEADER_KEYWORD

\* line.strip().startswith('Step')
IsHeaderLine(line) == StartsWith(Strip(line), HEADER_KEYWORD)

RECURSIVE HeaderIndicesFrom(_, _)
HeaderIndicesFrom(ls, k) ==
    IF k > Len(ls) THEN <<>>
    ELSE (IF IsHeaderLine(ls[k]) THEN <<k>> ELSE <<>>) \o HeaderIndicesFrom(ls, k + 1)

\* [i for i, line in enumerate(lines) if line.strip().startswith('Step')]
HeaderIndices(ls) == HeaderIndicesFrom(ls, 1)

\* Variant: every non-blank line passes the test
IsDataLineAnyText(raw) == Strip(raw) # <<>>

\* line and line.split()[0].isdigit(), with line = lines[i].strip()
IsDataLine(raw) ==
    LET line == Strip(raw)
    IN  line # <<>> /\ IsDigitStr(Split(line)[1])

\* The inner loop goes on at index k: k is in range and the line is numeric
InBlock(ls, k) == IF k > Len(ls) THEN FALSE ELSE IsDataLine(ls[k])

ThermoRow(toks, r) ==
    [Step    |-> ColumnCell(toks, r, 1),
     Temp    |-> ColumnCell(toks, r, 2),
     PotEng  |-> ColumnCell(toks, r, 3),
     TotEng  |-> ColumnCell(toks, r, 4),
     Press   |-> ColumnCell(toks, r, 5),
     Density |-> ColumnCell(toks, r, 6)]

\* pd.read_csv(StringIO(data_string), sep=r'\s+', names=THERMO_COLUMNS,
\* index_col=False): columns are assigned by position, fields beyond the six
\* names are dropped, absent fields are NaN.
ReadThermoBlock(rows) ==
    LET toks == [r \in 1..Len(rows) |-> Fields(rows[r])]
    IN  IF TooManyFields(toks, NumThermoColumns)
        THEN [ok |-> FALSE, table |-> <<>>]
        ELSE [ok |-> TRUE, table |-> [r \in 1..Len(rows) |-> ThermoRow(toks, r)]]

RECURSIVE ConcatRows(_)
ConcatRows(blocks) ==
    IF blocks = <<>> THEN <<>> ELSE Head(blocks) \o ConcatRows(Tail(blocks))

\* The element of a concatenated column: when every element of the column is
\* a number or NaN and not all are ints, the column is float64 and its ints
\* become floats; in an object column every element stays what it was
Upcast(cell, kinds) ==
    IF /\ cell.kind = "int"
       /\ kinds \subseteq {"int", "float", "inf", "nan"}
       /\ ~(kinds \subseteq {"int"})
    THEN Float(cell.num, 1)
    ELSE cell

\* pd.concat(data_blocks, ignore_index=True)
Concat(blocks) ==
    LET t == ConcatRows(blocks)
    IN  [r \in 1..Len(t) |->
            [name \in {THERMO_COLUMNS[c] : c \in 1..Len(THERMO_COLUMNS)} |->
                Upcast(t[r][name], {t[q][name].kind : q \in 1..Len(t)})]]

RECURSIVE DropDuplicatesFrom(_, _)
DropDuplicatesFrom(t, seen) ==
    IF t = <<>> THEN <<>>
    ELSE IF \E s \in seen : SameValue(s, Head(t).Step)
         THEN DropDuplicatesFrom(Tail(t), seen)
         ELSE <<Head(t)>> \o DropDuplicatesFrom(Tail(t), seen \cup {Head(t).Step})

RECURSIVE DropDuplicatesKeepLast(_)
\* Variant: keep='last'
DropDuplicatesKeepLast(t) ==
    IF t = <<>> THEN <<>>
    ELSE IF \E r \in 2..Len(t) : SameValue(t[r].Step, Head(t).Step)
         THEN DropDuplicatesKeepLast(Tail(t))
         ELSE <<Head(t)>> \o DropDuplicatesKeepLast(Tail(t))

\* df.drop_duplicates(subset=['Step'], keep='first')
DropDuplicates(t) == DropDuplicatesFrom(t, {})

\* A str element makes the division of its column raise TypeError
HasStr(t) ==
    \E r \in 1..Len(t) : t[r].PotEng.kind = "str" \/ t[r].TotEng.kind = "str"

\* df['PE_per_atom'] = df['PotEng'] / NUM_ATOMS; df['E_per_atom'] = ...
DerivePerAtom(t) ==
    [r \in 1..Len(t) |->
        [Step        |-> t[r].Step,
         Temp        |-> t[r].Temp,
         PotEng      |-> t[r].PotEng,
         TotEng      |-> t[r].TotEng,
         Press       |-> t[r].Press,
         Density     |-> t[r].Density,
         PE_per_atom |-> DivCell(t[r].PotEng, NUM_ATOMS),
         E_per_atom  |-> DivCell(t[r].TotEng, NUM_ATOMS)]]

\* df['Step'] >= 20000 in plot_thermo_data raises TypeError when the Step
\* column holds a str
StepNotComparable(t) == \E r \in 1..Len(t) : t[r].Step.kind = "str"

\* Every exception of the try block ends the stage in an except clause
Fail1(e) ==
    /\ pc1' = "failed"
    /\ err1' = e

\* with open(filepath, 'r') as f: lines = f.readlines()
ReadLines ==
    /\ pc1 = "start"
    /\ IF log.exists
       THEN /\ lines' = log.content
            /\ pc1' = "locate"
            /\ err1' = err1
       ELSE /\ Fail1(ThermoNotFound)
            /\ lines' = lines
    /\ UNCHANGED <<header_indices, hpos, i, current_data_lines, data_blocks, df,
                   scanned, cur_idx, concat_df, written1>>
    /\ UNCHANGED <<log, cleanedFile, structFile, finalFile, cleaned0, final0>>
    /\ UNCHANGED stage2vars

\* Variant: the check for an empty header_indices is missing, and the for
\* loop runs over what was found
LocateHeadersNoRaise ==
    /\ pc1 = "locate"
    /\ header_indices' = HeaderIndices(lines)
    /\ IF header_indices' = <<>>
       THEN /\ pc1' = "concat"
            /\ UNCHANGED <<hpos, i>>
       ELSE /\ pc1' = "scan"
            /\ hpos' = 1
            /\ i' = header_indices'[1] + 1
    /\ UNCHANGED <<lines, current_data_lines, data_blocks, df, err1, scanned,
                   cur_idx, concat_df, written1>>
    /\ UNCHANGED <<log, cleanedFile, structFile, finalFile, cleaned0, final0>>
    /\ UNCHANGED stage2vars

\* header_indices = [...]; if not header_indices: raise ValueError(...)
\* and, otherwise, the entry of the for loop with its first header
LocateHeaders ==
    /\ pc1 = "locate"
    /\ header_indices' = HeaderIndices(lines)
    /\ IF header_indices' = <<>>
       THEN /\ Fail1(NoHeaderFound)
            /\ UNCHANGED <<hpos, i>>
       ELSE /\ pc1' = "scan"
            /\ hpos' = 1
            /\ i' = header_indices'[1] + 1
            /\ err1' = err1
    /\ UNCHANGED <<lines, current_data_lines, data_blocks, df, scanned, cur_idx,
                   concat_df, written1>>
    /\ UNCHANGED <<log, cleanedFile, structFile, finalFile, cleaned0, final0>>
    /\ UNCHANGED stage2vars

\* One iteration of for i in range(data_start_index, len(lines)) that appends
ScanLine ==
    /\ pc1 = "scan"
    /\ InBlock(lines, i)
    /\ current_data_lines' = Append(current_data_lines, Strip(lines[i]))
    /\ cur_idx' = Append(cur_idx, i)
    /\ i' = i + 1
    /\ UNCHANGED <<pc1, lines, header_indices, hpos, data_blocks, df, err1,
                   scanned, concat_df, written1>>
    /\ UNCHANGED <<log, cleanedFile, structFile, finalFile, cleaned0, final0>>
    /\ UNCHANGED stage2vars

\* The end of the inner loop (break, or range exhausted), the parse of the
\* block when it is not empty, and the step to the next header
EndBlock ==
    /\ pc1 = "scan"
    /\ ~InBlock(lines, i)
    /\ scanned' = Append(scanned, [header |-> header_indices[hpos],
                                   stop |-> i, rows |-> cur_idx])
    /\ LET parsed == ReadThermoBlock(current_data_lines)
       IN  IF current_data_lines # <<>> /\ ~parsed.ok
           THEN /\ Fail1(ParserError)
                /\ cur_idx' = <<>>
                /\ UNCHANGED <<hpos, i, current_data_lines, data_blocks>>
           ELSE /\ data_blocks' = IF current_data_lines # <<>>
                                  THEN Append(data_blocks, parsed.table)
                                  ELSE data_blocks
                /\ current_data_lines' = <<>>
                /\ cur_idx' = <<>>
                /\ hpos' = hpos + 1
                /\ err1' = err1
                /\ IF hpos < Len(header_indices)
                   THEN /\ i' = header_indices[hpos + 1] + 1
                        /\ pc1' = "scan"
                   ELSE /\ i' = i
                        /\ pc1' = "concat"
    /\ UNCHANGED <<lines, header_indices, df, concat_df, written1>>
    /\ UNCHANGED <<log, cleanedFile, structFile, finalFile, cleaned0, final0>>
    /\ UNCHANGED stage2vars

\* Variant: the second raise repeats the message of the first
ConcatDedupSameMessage ==
    /\ pc1 = "concat"
    /\ IF data_blocks = <<>>
       THEN /\ Fail1(NoHeaderFound)
            /\ UNCHANGED <<df, concat_df>>
       ELSE /\ concat_df' = Concat(data_blocks)
            /\ df' = DropDuplicates(concat_df')
            /\ pc1' = "derive"
            /\ err1' = err1
    /\ UNCHANGED <<lines, header_indices, hpos, i, current_data_lines,
                   data_blocks, scanned, cur_idx, written1>>
    /\ UNCHANGED <<log, cleanedFile, structFile, finalFile, cleaned0, final0>>
    /\ UNCHANGED stage2vars

\* if not data_blocks: raise ValueError(...); pd.concat; drop_duplicates
ConcatDedup ==
    /\ pc1 = "concat"
    /\ IF data_blocks = <<>>
       THEN /\ Fail1(NoExtractableData)
            /\ UNCHANGED <<df, concat_df>>
       ELSE /\ concat_df' = Concat(data_blocks)
            /\ df' = DropDuplicates(concat_df')
            /\ pc1' = "derive"
            /\ err1' = err1
    /\ UNCHANGED <<lines, header_indices, hpos, i, current_data_lines,
                   data_blocks, scanned, cur_idx, written1>>
    /\ UNCHANGED <<log, cleanedFile, structFile, finalFile, cleaned0, final0>>
    /\ UNCHANGED stage2vars

\* The two per-atom columns and the return of the function
AddPerAtom ==
    /\ pc1 = "derive"
    /\ IF HasStr(df)
       THEN /\ Fail1(TypeError)
            /\ df' = df
       ELSE /\ df' = DerivePerAtom(df)
            /\ pc1' = "save"
            /\ err1' = err1
    /\ UNCHANGED <<lines, header_indices, hpos, i, current_data_lines,
                   data_blocks, scanned, cur_idx, concat_df, written1>>
    /\ UNCHANGED <<log, cleanedFile, structFile, finalFile, cleaned0, final0>>
    /\ UNCHANGED stage2vars

\* data_df.to_csv(OUTPUT_DIR + 'cleaned_thermo_data.csv', index=False)
SaveCleaned ==
    /\ pc1 = "save"
    /\ cleanedFile' = File(ToCsv(df, CLEANED_COLUMNS))
    /\ written1' = TRUE
    /\ pc1' = "plot"
    /\ UNCHANGED <<lines, header_indices, hpos, i, current_data_lines,
                   data_blocks, df, err1, scanned, cur_idx, concat_df>>
    /\ UNCHANGED <<log, structFile, finalFile, cleaned0, final0>>
    /\ UNCHANGED stage2vars

\* plot_thermo_data(data_df), inside the same try block: the filter on Step
\* raises when the column holds a str; savefig and show write to the file
\* system and the display, and either may raise.
Plot ==
    /\ pc1 = "plot"
    /\ IF StepNotComparable(df)
       THEN Fail1(PlotTypeError)
       ELSE \E raised \in BOOLEAN :
               IF raised
               THEN Fail1(PlotFailed)
               ELSE pc1' = "done" /\ err1' = err1
    /\ UNCHANGED <<lines, header_indices, hpos, i, current_data_lines,
                   data_blocks, df, scanned, cur_idx, concat_df, written1>>
    /\ UNCHANGED <<log, cleanedFile, structFile, finalFile, cleaned0, final0>>
    /\ UNCHANGED stage2vars

-----------------------------------------------------------------------------
(* Stage 2: combine_and_create_features *)

CleanedNotFound == Raised("FileNotFoundError", "output/cleaned_thermo_data.csv")

StructNotFound == Raised("FileNotFoundError", "output/structural_features.txt")

StructLoadError == Raised("Exception", "Error loading structural data")

AddTypeError == Raised("TypeError", "can only concatenate str (not \"int\") to str")

MergeValueError ==
    Raised("ValueError", "You are trying to merge on int64 and object columns")

RECURSIVE RemoveFirstInLines(_, _)
\* content.replace('#', '', 1) on the whole text of the file
RemoveFirstInLines(ls, c) ==
    IF ls = <<>> THEN ls
    ELSE IF \E k \in 1..Len(Head(ls)) : Head(ls)[k] = c
         THEN <<RemoveFirst(Head(ls), c)>> \o Tail(ls)
         ELSE <<Head(ls)>> \o RemoveFirstInLines(Tail(ls), c)

RECURSIVE NonBlankRows(_)
\* The lines the tokenizer does not skip
NonBlankRows(ls) ==
    IF ls = <<>> THEN <<>>
    ELSE (IF IsBlankRow(Head(ls)) THEN <<>> ELSE <<Head(ls)>>)
         \o NonBlankRows(Tail(ls))

StructRow(toks, r) ==
    [N_bcc    |-> ColumnCell(toks, r, 1),
     N_fcc    |-> ColumnCell(toks, r, 2),
     N_hcp    |-> ColumnCell(toks, r, 3),
     N_other  |-> ColumnCell(toks, r, 4),
     Frame    |-> ColumnCell(toks, r, 5),
     Timestep |-> ColumnCell(toks, r, 6)]

\* pd.read_csv(io.StringIO(content), sep=r'\s+', header=0, names=STRUCT_COLS,
\* index_col=False).  Blank lines are skipped; the first line left is
\* consumed as the header and its labels are replaced by the six names.  With
\* no line left, or the header alone, the names give an empty table and
\* nothing is raised.  The first data row is exempt from the field count and
\* is padded to the header's; a later row with more fields than the larger of
\* the two is "Error tokenizing data"; rows that, header included, have fewer
\* fields than there are names are "Too many columns specified"; fields
\* beyond the six names are dropped.
ReadStructural(ls) ==
    LET rows == NonBlankRows(ls)
    IN  IF rows = <<>> THEN [ok |-> TRUE, table |-> <<>>]
        ELSE LET body == Tail(rows)
                 toks == [r \in 1..Len(body) |-> Fields(body[r])]
                 count == Len(Fields(Head(rows)))
             IN  IF body = <<>> THEN [ok |-> TRUE, table |-> <<>>]
                 ELSE IF TooManyFields(toks, count)
                      THEN [ok |-> FALSE, table |-> <<>>]
                 ELSE IF Max(Len(toks[1]), count) < NumStructColumns
                      THEN [ok |-> FALSE, table |-> <<>>]
                 ELSE [ok |-> TRUE,
                       table |-> [r \in 1..Len(body) |-> StructRow(toks, r)]]

\* The column of a table as a sequence of cells
Column(t, name) == [r \in 1..Len(t) |-> t[r][name]]

IsBoolSeries(x) == \A r \in 1..Len(x) : x[r].kind = "bool"

\* Series + Series raises
SeriesAddRaises(x, y) == \E r \in 1..Len(x) : AddRaises(x[r], y[r])

\* Series + Series: element by element; two bool columns add to a bool column
AddSeries(x, y) ==
    [r \in 1..Len(x) |->
        IF IsBoolSeries(x) /\ IsBoolSeries(y)
        THEN Bool(x[r].num = 1 \/ y[r].num = 1)
        ELSE AddCell(x[r], y[r])]

\* df_struct['N_fcc'] + df_struct['N_hcp']
FccPlusHcp(t) == AddSeries(Column(t, "N_fcc"), Column(t, "N_hcp"))

\* df_struct['N_solid'] = df_struct['N_fcc'] + df_struct['N_hcp'] + df_struct['N_bcc']
NSolid(t) == AddSeries(FccPlusHcp(t), Column(t, "N_bcc"))

\* One of the two additions raises, or the division by NUM_ATOMS does
SolidRaises(t) ==
    \/ SeriesAddRaises(Column(t, "N_fcc"), Column(t, "N_hcp"))
    \/ SeriesAddRaises(FccPlusHcp(t), Column(t, "N_bcc"))
    \/ \E r \in 1..Len(t) : NSolid(t)[r].kind = "str"

\* The exception of SolidRaises: the first statement that fails
SolidError(t) ==
    IF \/ SeriesAddRaises(Column(t, "N_fcc"), Column(t, "N_hcp"))
       \/ SeriesAddRaises(FccPlusHcp(t), Column(t, "N_bcc"))
    THEN AddTypeError
    ELSE TypeError

\* df_struct['Fraction_Solid'] = df_struct['N_solid'] / NUM_ATOMS
DeriveSolid(t) ==
    [r \in 1..Len(t) |->
        [N_bcc          |-> t[r].N_bcc,
         N_fcc          |-> t[r].N_fcc,
         N_hcp          |-> t[r].N_hcp,
         N_other        |-> t[r].N_other,
         Frame          |-> t[r].Frame,
         Timestep       |-> t[r].Timestep,
         N_solid        |-> NSolid(t)[r],
         Fraction_Solid |-> DivCell(NSolid(t)[r], NUM_ATOMS)]]

\* The dtype of a key column of a table that read_csv returned
KeyDtype(x) ==
    LET kinds == {x[r].kind : r \in 1..Len(x)}
    IN  IF x = <<>> THEN "empty"
        ELSE IF "str" \in kinds THEN "object"
        ELSE IF "bool" \in kinds
             THEN (IF kinds = {"bool"} THEN "bool" ELSE "object")
        ELSE IF kinds = {"int"} THEN "int64"
        ELSE "float64"

\* pd.merge refuses the keys: neither column is empty, one is an object
\* column and the other an int64 or float64 column
MergeRaises(left, right) ==
    LET a == KeyDtype(Column(left, "Step"))
        b == KeyDtype(Column(right, "Timestep"))
    IN  \/ a = "object" /\ b \in {"int64", "float64"}
        \/ b = "object" /\ a \in {"int64", "float64"}

\* Equality of two join keys (pandas matches NaN with NaN)
KeyMatch(a, b) == SameValue(a, b)

\* One output row: the thermo columns, then Fraction_Solid (Timestep dropped)
JoinedRow(t, s) ==
    [Step           |-> t.Step,
     Temp           |-> t.Temp,
     PotEng         |-> t.PotEng,
     TotEng         |-> t.TotEng,
     Press          |-> t.Press,
     Density        |-> t.Density,
     PE_per_atom    |-> t.PE_per_atom,
     E_per_atom     |-> t.E_per_atom,
     Fraction_Solid |-> s.Fraction_Solid]

RECURSIVE MatchesOf(_, _)
MatchesOf(t, right) ==
    IF right = <<>> THEN <<>>
    ELSE (IF KeyMatch(t.Step, Head(right).Timestep)
          THEN <<JoinedRow(t, Head(right))>> ELSE <<>>)
         \o MatchesOf(t, Tail(right))

\* A thermo row without a match, as how='left' keeps it
UnmatchedRow(t) == JoinedRow(t, [Fraction_Solid |-> NaN])

RECURSIVE LeftMerge(_, _)
\* Variant: how='left'
LeftMerge(left, right) ==
    IF left = <<>> THEN <<>>
    ELSE (IF MatchesOf(Head(left), right) = <<>>
          THEN <<UnmatchedRow(Head(left))>>
          ELSE MatchesOf(Head(left), right))
         \o LeftMerge(Tail(left), right)

RECURSIVE InnerMerge(_, _)
\* pd.merge(df_thermo, df_struct[['Timestep', 'Fraction_Solid']],
\*          left_on='Step', right_on='Timestep', how='inner'), then
\* drop(columns=['Timestep']): left order, each left row with its matches
InnerMerge(left, right) ==
    IF left = <<>> THEN <<>>
    ELSE MatchesOf(Head(left), right) \o InnerMerge(Tail(left), right)

FINAL_COLUMNS == CLEANED_COLUMNS \o <<"Fraction_Solid">>

\* An except clause prints the message and returns
Return2(e) ==
    /\ pc2' = "returned"
    /\ err2' = e

\* An exception outside every try block ends the function with a traceback
Crash2(e) ==
    /\ pc2' = "crashed"
    /\ err2' = e

Stage1Ended == pc1 \in {"done", "failed"}

\* 1. Load Thermodynamic Data
LoadThermo ==
    /\ pc2 = "start"
    /\ Stage1Ended
    /\ IF cleanedFile.exists
       THEN /\ df_thermo' = ReadCsv(cleanedFile.content)
            /\ pc2' = "struct"
            /\ err2' = err2
       ELSE /\ Return2(CleanedNotFound)
            /\ df_thermo' = df_thermo
    /\ UNCHANGED <<df_struct, df_final, written2>>
    /\ UNCHANGED <<log, cleanedFile, structFile, finalFile, cleaned0, final0>>
    /\ UNCHANGED stage1vars

\* 2. Load Structural Data
LoadStructural ==
    /\ pc2 = "struct"
    /\ IF ~structFile.exists
       THEN /\ Return2(StructNotFound)
            /\ df_struct' = df_struct
       ELSE LET parsed == ReadStructural(RemoveFirstInLines(structFile.content, "#"))
            IN  IF parsed.ok
                THEN /\ df_struct' = parsed.table
                     /\ pc2' = "fraction"
                     /\ err2' = err2
                ELSE /\ Return2(StructLoadError)
                     /\ df_struct' = df_struct
    /\ UNCHANGED <<df_thermo, df_final, written2>>
    /\ UNCHANGED <<log, cleanedFile, structFile, finalFile, cleaned0, final0>>
    /\ UNCHANGED stage1vars

\* 3. Calculate the key ML Label Feature; a TypeError of the arithmetic is
\* caught nowhere
DeriveSolidFraction ==
    /\ pc2 = "fraction"
    /\ IF SolidRaises(df_struct)
       THEN /\ Crash2(SolidError(df_struct))
            /\ df_struct' = df_struct
       ELSE /\ df_struct' = DeriveSolid(df_struct)
            /\ pc2' = "merge"
            /\ err2' = err2
    /\ UNCHANGED <<df_thermo, df_final, written2>>
    /\ UNCHANGED <<log, cleanedFile, structFile, finalFile, cleaned0, final0>>
    /\ UNCHANGED stage1vars

\* Variant: the merge and the drop stand in a try block whose except clause
\* prints the error and goes on with the thermo rows, Fraction_Solid missing
MergeCaught ==
    /\ pc2 = "merge"
    /\ IF MergeRaises(df_thermo, df_struct)
       THEN /\ df_final' = [r \in 1..Len(df_thermo) |-> UnmatchedRow(df_thermo[r])]
            /\ pc2' = "save"
            /\ err2' = MergeValueError
       ELSE /\ df_final' = InnerMerge(df_thermo, df_struct)
            /\ pc2' = "save"
            /\ err2' = err2
    /\ UNCHANGED <<df_thermo, df_struct, written2>>
    /\ UNCHANGED <<log, cleanedFile, structFile, finalFile, cleaned0, final0>>
    /\ UNCHANGED stage1vars

\* 4. Merge the two DataFrames and drop the redundant 'Timestep' column; a
\* ValueError of pd.merge is caught nowhere
Merge ==
    /\ pc2 = "merge"
    /\ IF MergeRaises(df_thermo, df_struct)
       THEN /\ Crash2(MergeValueError)
            /\ df_final' = df_final
       ELSE /\ df_final' = InnerMerge(df_thermo, df_struct)
            /\ pc2' = "save"
            /\ err2' = err2
    /\ UNCHANGED <<df_thermo, df_struct, written2>>
    /\ UNCHANGED <<log, cleanedFile, structFile, finalFile, cleaned0, final0>>
    /\ UNCHANGED stage1vars

\* 5. Save the final ML dataset
SaveFinal ==
    /\ pc2 = "save"
    /\ finalFile' = File(ToCsv(df_final, FINAL_COLUMNS))
    /\ written2' = TRUE
    /\ pc2' = "done"
    /\ UNCHANGED <<df_thermo, df_struct, df_final, err2>>
    /\ UNCHANGED <<log, cleanedFile, structFile, cleaned0, final0>>
    /\ UNCHANGED stage1vars

-----------------------------------------------------------------------------
(* Inputs: the files the pipeline is started on *)

Sp == <<" ">>

RECURSIVE Join(_)
\* The tokens of a line separated by single spaces
Join(toks) ==
    IF Len(toks) = 1 THEN toks[1] ELSE toks[1] \o Sp \o Join(Tail(toks))

T1000 == <<"1", "0", "0", "0">>

T2000 == <<"2", "0", "0", "0">>

T3000 == <<"3", "0", "0", "0">>

T4000 == <<"4", "0", "0", "0">>

T5000 == <<"5", "0", "0", "0">>

\* "Step Temp PotEng TotEng Press Density", shortened to its first two words
HeaderLine == HEADER_KEYWORD \o Sp \o <<"T", "e", "m", "p">>

\* " Steps 9": indented, and its first word only begins with the keyword
PrefixLine == Sp \o HEADER_KEYWORD \o <<"s">> \o Sp \o <<"9">>

\* The header line behind a no-break space and a form feed
NbspHeaderLine == <<"U+00A0", "\f">> \o HeaderLine

RowA == Join(<<T1000, <<"5">>, <<"-", "5">>, <<"5">>, <<"5">>, <<"5">>>>)

\* the same step as RowA with other values, and surrounded by blanks
RowB == Sp \o Join(<<T1000, <<"7">>, <<"7">>, <<"7">>, <<"7">>, <<"7">>>>) \o Sp

\* three fields
ShortRow == Join(<<T2000, <<"3">>, <<"3">>>>)

\* seven fields
LongRow == Join(<<T2000, <<"1">>, <<"1">>, <<"1">>, <<"1">>, <<"1">>, <<"9">>>>)

\* a non-numeric PotEng
StrRow == Join(<<T3000, <<"1">>, <<"x">>, <<"1">>, <<"1">>, <<"1">>>>)

\* 2000 300.5 -1.5e1 +5 nan inf
DecimalRow ==
    Join(<<T2000, <<"3", "0", "0", ".", "5">>, <<"-", "1", ".", "5", "e", "1">>,
           <<"+", "5">>, <<"n", "a", "n">>, <<"i", "n", "f">>>>)

\* a first token that is the superscript two
SuperscriptRow ==
    Join(<<<<"U+00B2">>, <<"5">>, <<"5">>, <<"5">>, <<"5">>, <<"5">>>>)

\* a first token that is an Arabic-Indic three
ArabicRow ==
    Join(<<<<"U+0663">>, <<"5">>, <<"5">>, <<"5">>, <<"5">>, <<"5">>>>)

\* "3000", a form feed, then "9 5 5 5 5 5": seven tokens for str.split(), six
\* fields for the parser, the first of them not a number
FormFeedRow ==
    T3000 \o <<"\f">> \o Join(<<<<"9">>, <<"5">>, <<"5">>, <<"5">>, <<"5">>, <<"5">>>>)

\* a boolean word as Temp
BoolRow ==
    Join(<<T4000, <<"T", "r", "u", "e">>, <<"5">>, <<"5">>, <<"5">>, <<"5">>>>)

\* a first token that is the Devanagari one
DevanagariRow ==
    Join(<<<<"U+0967">>, <<"5">>, <<"5">>, <<"5">>, <<"5">>, <<"5">>>>)

\* boolean words in mixed case as Temp
MixedTrueRow ==
    Join(<<T1000, <<"t", "R", "U", "E">>, <<"5">>, <<"5">>, <<"5">>, <<"5">>>>)

MixedFalseRow ==
    Join(<<T2000, <<"f", "A", "l", "S", "e">>, <<"5">>, <<"5">>, <<"5">>, <<"5">>>>)

\* 1000 0.00001 5 5 5 -0.0
SmallRow ==
    Join(<<T1000, <<"0", ".", "0", "0", "0", "0", "1">>, <<"5">>, <<"5">>,
           <<"5">>, <<"-", "0", ".", "0">>>>)

\* a Temp that is no number
StrTempRow == Join(<<T1000, <<"x">>, <<"1">>, <<"1">>, <<"1">>, <<"1">>>>)

\* the same at step 2000
StrTempRowB == Join(<<T2000, <<"x">>, <<"1">>, <<"1">>, <<"1">>, <<"1">>>>)

\* 1000 -0 5 5 5 5
MinusZeroRow == Join(<<T1000, <<"-", "0">>, <<"5">>, <<"5">>, <<"5">>, <<"5">>>>)

\* 2000 nan 5 5 5 0.5
MissingTempRow ==
    Join(<<T2000, <<"n", "a", "n">>, <<"5">>, <<"5">>, <<"5">>, <<"0", ".", "5">>>>)

\* 2000 0.5 5 5 5 5
HalfTempRow == Join(<<T2000, <<"0", ".", "5">>, <<"5">>, <<"5">>, <<"5">>, <<"5">>>>)

BlankLine == Sp

\* first token a negative integer
NegLine == Join(<<<<"-", "1">>, <<"5">>>>)

LineChoices ==
    {HeaderLine, PrefixLine, RowA, RowB, ShortRow, BlankLine, NegLine}

BoundedSeq(S, n) == UNION {[1..k -> S] : k \in 0..n}

Row6(step, v) == Join(<<step, v, v, v, v, v>>)

\* Block A with steps 0, 1000, 2000, 3000, then block B with steps 3000, 4000
OverlapLog ==
    <<HeaderLine, Row6(<<"0">>, <<"1">>), Row6(T1000, <<"1">>),
      Row6(T2000, <<"1">>), Row6(T3000, <<"1">>), NegLine,
      HeaderLine, Row6(T3000, <<"2">>), Row6(T4000, <<"2">>)>>

\* Logs with a row of seven fields, with a field that is no integer, with
\* digits and whitespace outside ASCII, and with an empty line
OddRowLogs ==
    {<<HeaderLine, LongRow>>, <<HeaderLine, LongRow, RowA>>,
     <<HeaderLine, RowA, LongRow>>, <<HeaderLine, ShortRow, LongRow>>,
     <<HeaderLine, StrRow>>, <<HeaderLine, RowA, StrRow>>,
     <<HeaderLine, RowA, HeaderLine, StrRow>>,
     <<HeaderLine, RowA, HeaderLine, Row6(T1000, <<"x">>), HeaderLine, ShortRow>>,
     <<HeaderLine, DecimalRow>>, <<HeaderLine, RowA, DecimalRow>>,
     <<HeaderLine, RowA, HeaderLine, DecimalRow>>,
     <<HeaderLine, RowA, SuperscriptRow, RowB>>,
     <<HeaderLine, RowA, SuperscriptRow, HeaderLine, RowB>>,
     <<HeaderLine, ArabicRow, RowA>>,
     <<HeaderLine, FormFeedRow>>, <<HeaderLine, RowA, FormFeedRow>>,
     <<NbspHeaderLine, RowA, <<>>, RowB>>,
     <<HeaderLine, BoolRow>>, <<HeaderLine, BoolRow, HeaderLine, RowA>>,
     <<HeaderLine, DevanagariRow>>, <<HeaderLine, RowA, DevanagariRow, RowB>>,
     <<HeaderLine, MixedTrueRow, MixedFalseRow>>,
     <<HeaderLine, MixedTrueRow, HeaderLine, Row6(T1000, <<"x">>)>>,
     <<HeaderLine, MixedTrueRow, StrTempRow>>,
     <<HeaderLine, MinusZeroRow, MissingTempRow>>,
     <<HeaderLine, MinusZeroRow, HalfTempRow>>,
     <<HeaderLine, SmallRow>>, <<HeaderLine, SmallRow, HeaderLine, StrTempRowB>>}

Logs == BoundedSeq(LineChoices, MaxLines) \cup OddRowLogs \cup {OverlapLog}

\* A cleaned table left by an earlier run
CleanedRow(step, v) ==
    [Step |-> Num(step), Temp |-> Num(v), PotEng |-> Num(v), TotEng |-> Num(v),
     Press |-> Num(v), Density |-> Num(v),
     PE_per_atom |-> DivCell(Num(v), NUM_ATOMS),
     E_per_atom |-> DivCell(Num(v), NUM_ATOMS)]

StaleThree ==
    File(ToCsv(<<CleanedRow(0, 1), CleanedRow(1000, 2), CleanedRow(2000, 3)>>,
               CLEANED_COLUMNS))

StaleRepeated ==
    File(ToCsv(<<CleanedRow(1000, 1), CleanedRow(1000, 2)>>, CLEANED_COLUMNS))

CleanedChoices == {Absent, StaleThree, StaleRepeated}

\* "#N_bcc N_fcc N_hcp N_other Frame Timestep", labels shortened
StructHeaderHash ==
    Join(<<<<"#", "b">>, <<"f">>, <<"h">>, <<"o">>, <<"F">>, <<"T">>>>)

StructHeaderPlain ==
    Join(<<<<"b">>, <<"f">>, <<"h">>, <<"o">>, <<"F">>, <<"T">>>>)

\* a header of two labels
StructHeaderShort == Join(<<<<"b">>, <<"f">>>>)

D(a, b) == <<a, b>>

\* 10 20 0 226 0 0
SRowZero ==
    Join(<<D("1", "0"), D("2", "0"), <<"0">>, <<"2", "2", "6">>, <<"0">>, <<"0">>>>)

\* 0 100 28 128 1 1000
SRow1000 ==
    Join(<<<<"0">>, <<"1", "0", "0">>, D("2", "8"), <<"1", "2", "8">>, <<"1">>, T1000>>)

\* 1 2 3 250 2 1000: the timestep of SRow1000 again, other counts
SRow1000b ==
    Join(<<<<"1">>, <<"2">>, <<"3">>, <<"2", "5", "0">>, <<"2">>, T1000>>)

\* 0 0 0 256 2 2000
SRow2000 ==
    Join(<<<<"0">>, <<"0">>, <<"0">>, <<"2", "5", "6">>, <<"2">>, T2000>>)

\* 5 5 5 241 3 5000
SRow5000 ==
    Join(<<<<"5">>, <<"5">>, <<"5">>, <<"2", "4", "1">>, <<"3">>, T5000>>)

\* two fields
SRowShort == Join(<<<<"7">>, <<"7">>>>)

\* seven fields
SRowLong ==
    Join(<<<<"1">>, <<"1">>, <<"1">>, <<"1">>, <<"1">>, T2000, <<"9">>>>)

\* nan 20 0 236 1 1000: a missing count
SRowMissing ==
    Join(<<<<"n", "a", "n">>, D("2", "0"), <<"0">>, <<"2", "3", "6">>, <<"1">>, T1000>>)

\* x 1 1 1 1 1000: a count that is no number
SRowStr == Join(<<<<"x">>, <<"1">>, <<"1">>, <<"1">>, <<"1">>, T1000>>)

\* 1 1 1 1 1 x: a timestep that is no number
SRowStrKey == Join(<<<<"1">>, <<"1">>, <<"1">>, <<"1">>, <<"1">>, <<"x">>>>)

\* 0.5 1.5 2 252 1 2000.0: floats
SRowDecimal ==
    Join(<<<<"0", ".", "5">>, <<"1", ".", "5">>, <<"2">>, <<"2", "5", "2">>,
           <<"1">>, T2000 \o <<".", "0">>>>)

StructRowChoices == {SRowZero, SRow1000, SRow1000b, SRow2000, SRowShort, SRowLong}

StructScenario == <<StructHeaderHash, SRow1000, SRow2000, SRow5000>>

\* Structural files with blank lines, with fields that are no integers and
\* with a short header
OddStructFiles ==
    {File(<<StructHeaderHash, SRow1000, BlankLine, SRow2000>>),
     File(<<StructHeaderPlain, <<>>, SRowLong>>),
     File(<<<<"#">>, SRow1000, SRow2000>>),
     File(<<StructHeaderHash, SRowMissing>>),
     File(<<StructHeaderHash, SRowMissing, SRow2000>>),
     File(<<StructHeaderHash, SRowStr>>),
     File(<<StructHeaderHash, SRowStrKey>>),
     File(<<StructHeaderHash, SRowDecimal>>),
     File(<<StructHeaderShort, SRowShort>>),
     File(<<BlankLine>>)}

StructFiles ==
    {Absent, File(<<>>), File(StructScenario)}
    \cup {File(<<h>> \o rows) : h \in {StructHeaderHash, StructHeaderPlain},
                                rows \in BoundedSeq(StructRowChoices, MaxStructRows)}
    \cup OddStructFiles

SmallLogs ==
    {Absent, File(OverlapLog), File(<<NegLine, RowA>>),
     File(<<HeaderLine, RowA, ShortRow>>)}

\* Every log with one earlier cleaned table and one structural file, and a few
\* logs with every earlier cleaned table and every structural file
Inputs ==
    {<<File(l), StaleThree, File(StructScenario)>> : l \in Logs}
    \cup (SmallLogs \X CleanedChoices \X StructFiles)

Init ==
    /\ \E in \in Inputs :
          /\ log = in[1]
          /\ cleanedFile = in[2]
          /\ structFile = in[3]
    /\ finalFile = Absent
    /\ cleaned0 = cleanedFile
    /\ final0 = finalFile
    /\ pc1 = "start"
    /\ lines = <<>>
    /\ header_indices = <<>>
    /\ hpos = 0
    /\ i = 0
    /\ current_data_lines = <<>>
    /\ data_blocks = <<>>
    /\ df = <<>>
    /\ err1 = NoError
    /\ pc2 = "start"
    /\ df_thermo = <<>>
    /\ df_struct = <<>>
    /\ df_final = <<>>
    /\ err2 = NoError
    /\ scanned = <<>>
    /\ cur_idx = <<>>
    /\ concat_df = <<>>
    /\ written1 = FALSE
    /\ written2 = FALSE

Next ==
    \/ ReadLines
    \/ LocateHeaders
    \/ ScanLine
    \/ EndBlock
    \/ ConcatDedup
    \/ AddPerAtom
    \/ SaveCleaned
    \/ Plot
    \/ LoadThermo
    \/ LoadStructural
    \/ DeriveSolidFraction
    \/ Merge
    \/ SaveFinal

Spec == Init /\ [][Next]_vars

-----------------------------------------------------------------------------
(* Properties of stage 1 *)

FirstToken(line) == Split(Strip(line))[1]

\* The characters int() takes as decimal digits
DecimalDigit == Digit \cup UnicodeDecimalDigit

\* A numeric line as the specification words it: the trimmed line is not
\* empty and its first token parses as a non-negative integer
NumericLine(line) ==
    /\ Strip(line) # <<>>
    /\ \A k \in 1..Len(FirstToken(line)) : FirstToken(line)[k] \in DecimalDigit

\* The first index after h that is past the end of the file or not numeric
BlockBoundary(ls, h) ==
    CHOOSE k \in (h + 1)..(Len(ls) + 1) :
        /\ IF k = Len(ls) + 1 THEN TRUE ELSE ~NumericLine(ls[k])
        /\ \A j \in (h + 1)..(k - 1) : NumericLine(ls[j])

Interval(a, b) == [j \in 1..(b - a + 1) |-> a + j - 1]

\* C1: the block taken for a header at index h that is followed by a numeric
\* line is exactly the lines h+1..k-1, k being the first index after h whose
\* line is blank or does not start with a non-negative integer (or the end of
\* the file); the scan stops at k and no line at or after k is in the block,
\* whatever follows.
C1_BlockIsMaximalRun ==
    \A n \in 1..Len(scanned) :
        LET h == scanned[n].header
            k == BlockBoundary(lines, h)
        IN  k > h + 1
            => /\ scanned[n].stop = k
               /\ scanned[n].rows = Interval(h + 1, k - 1)

\* The first token has the keyword as a prefix
TokenBeginsWithKeyword(line) ==
    /\ Strip(line) # <<>>
    /\ Len(FirstToken(line)) >= Len(HEADER_KEYWORD)
    /\ \A k \in 1..Len(HEADER_KEYWORD) : FirstToken(line)[k] = HEADER_KEYWORD[k]

\* The first token is the keyword
TokenIsKeyword(line) ==
    /\ Strip(line) # <<>>
    /\ FirstToken(line) = HEADER_KEYWORD

HeadersScanned == {scanned[n].header : n \in 1..Len(scanned)}

ScanFinished == pc1 \in {"concat", "derive", "save", "plot", "done"}

\* C9 as stated: a line starts a block if and only if its first token equals
\* the keyword, so a line whose first token is longer starts none.
C9_HeaderIsExactToken ==
    ScanFinished =>
        HeadersScanned = {k \in 1..Len(lines) : TokenIsKeyword(lines[k])}

\* C9 amended: a line starts a block if and only if its first token begins
\* with the keyword; a line whose first token is longer than the keyword is a
\* header too, and the numeric lines that follow it are taken as its block.
C9_HeaderIsKeywordPrefix ==
    /\ pc1 \notin {"start", "locate"} /\ err1 # ThermoNotFound =>
          /\ {header_indices[n] : n \in 1..Len(header_indices)}
                = {k \in 1..Len(lines) : TokenBeginsWithKeyword(lines[k])}
          /\ \A n \in 1..Len(scanned) : scanned[n].header = header_indices[n]
    /\ ScanFinished =>
          /\ HeadersScanned = {k \in 1..Len(lines) : TokenBeginsWithKeyword(lines[k])}
          /\ \A n \in 1..Len(scanned) :
                LET h == scanned[n].header
                IN  InBlock(lines, h + 1)
                    => (h + 1) \in {scanned[n].rows[j] : j \in 1..Len(scanned[n].rows)}

\* A header whose first token is longer than the keyword, with a block taken
C9_Witness ==
    /\ ScanFinished
    /\ \E n \in 1..Len(scanned) :
          /\ ~TokenIsKeyword(lines[scanned[n].header])
          /\ scanned[n].rows # <<>>

RowSet(n) == {scanned[n].rows[j] : j \in 1..Len(scanned[n].rows)}

RECURSIVE SourceLines(_)
\* The log lines behind the rows of the concatenated table, in table order
SourceLines(sc) ==
    IF sc = <<>> THEN <<>> ELSE Head(sc).rows \o SourceLines(Tail(sc))

\* The Step cell is what the first field of the log line holds: its value
\* when the column was read as integers, its text when it was read as strings
StepOfLine(cell, line) ==
    LET f == Fields(Strip(line))[1]
    IN  IF cell.kind = "int" THEN IsIntTok(f) /\ cell.num = IntValue(f)
        ELSE cell.kind = "str" /\ cell.text = f

\* C10: the blocks of distinct headers are pairwise disjoint and hold no
\* header line; the scan of a header ends at or before the next header; every
\* row of the concatenated table comes from a log line of its own and carries
\* the step of that line.
C10_BlocksDisjoint ==
    /\ \A n, m \in 1..Len(scanned) : n # m => RowSet(n) \cap RowSet(m) = {}
    /\ \A n \in 1..Len(scanned) :
          /\ RowSet(n) \cap {cur_idx[j] : j \in 1..Len(cur_idx)} = {}
          /\ \A k \in RowSet(n) : ~IsHeaderLine(lines[k])
          /\ n < Len(header_indices) => scanned[n].stop <= header_indices[n + 1]
    /\ \A j \in 1..Len(cur_idx) : ~IsHeaderLine(lines[cur_idx[j]])
    /\ pc1 \in {"derive", "save", "plot", "done"} =>
          LET src == SourceLines(scanned)
          IN  /\ Len(src) = Len(concat_df)
              /\ \A a, b \in 1..Len(src) : a # b => src[a] # src[b]
              /\ \A a \in 1..Len(src) :
                    /\ IsDigitStr(FirstToken(lines[src[a]]))
                    /\ StepOfLine(concat_df[a].Step, lines[src[a]])

\* Two headers with a non-empty block each, and the same step in both blocks
C10_Witness ==
    /\ pc1 = "derive"
    /\ \E n, m \in 1..Len(scanned) :
          /\ n < m
          /\ scanned[n].rows # <<>>
          /\ scanned[m].rows # <<>>
    /\ Len(df) < Len(concat_df)

Steps(t) == [r \in 1..Len(t) |-> t[r].Step]

\* The rows of t that are the first with their step
FirstSeen(t) ==
    {r \in 1..Len(t) : \A q \in 1..(r - 1) : ~SameValue(t[q].Step, t[r].Step)}

\* The rows of t at the indices of S, in increasing order
RowsAt(t, S) ==
    [k \in 1..Cardinality(S) |->
        t[CHOOSE x \in S : Cardinality({y \in S : y < x}) = k - 1]]

\* C2: the cleaned table has no two rows with the same Step, the row kept for
\* a step is the first one in block and row order, and kept rows stay in
\* first-seen order; blocks [0,1000,2000,3000] and [3000,4000] give steps
\* [0,1000,2000,3000,4000] with the step-3000 row of the first block.
C2_FirstOccurrenceWins ==
    /\ pc1 = "derive" => df = RowsAt(concat_df, FirstSeen(concat_df))
    /\ pc1 \in {"derive", "save", "plot", "done"} =>
          /\ \A a, b \in 1..Len(df) :
                a # b => ~SameValue(df[a].Step, df[b].Step)
          /\ Steps(df) = Steps(RowsAt(concat_df, FirstSeen(concat_df)))
    /\ pc1 = "derive" /\ lines = OverlapLog =>
          /\ Steps(df) = <<Num(0), Num(1000), Num(2000), Num(3000), Num(4000)>>
          /\ df[4].Temp = Num(1)

C2_Witness ==
    /\ pc1 = "derive"
    /\ lines = OverlapLog
    /\ Len(concat_df) = 6
    /\ Len(df) = 5

\* No line of the log starts, once trimmed, with the keyword
NoHeaderInLog ==
    /\ log.exists
    /\ \A k \in 1..Len(log.content) :
          ~StartsWith(Strip(log.content[k]), HEADER_KEYWORD)

\* C4: a log without a header line fails with the no-header error before any
\* block is scanned, and the cleaned table is not written in that run.
C4_NoHeaderFails ==
    NoHeaderInLog =>
        /\ pc1 \in {"start", "locate", "failed"}
        /\ pc1 = "failed" => err1 = NoHeaderFound
        /\ scanned = <<>> /\ cur_idx = <<>> /\ data_blocks = <<>>
        /\ ~written1
        /\ cleanedFile = cleaned0

\* A log of numeric lines without any header has failed
C4_Witness ==
    /\ NoHeaderInLog
    /\ \E k \in 1..Len(lines) : IsDataLine(lines[k])
    /\ pc1 = "failed"
    /\ err1 = NoHeaderFound
    /\ cleaned0.exists

AllBlocksEmpty == \A n \in 1..Len(scanned) : scanned[n].rows = <<>>

NonEmptyBlocks == {n \in 1..Len(scanned) : scanned[n].rows # <<>>}

\* C5: headers whose blocks are all empty fail with the no-extractable-data
\* error, an outcome that differs from the no-header one; an empty block next
\* to a non-empty one is skipped without error.
C5_NoExtractableData ==
    /\ pc1 \notin {"start", "locate", "scan", "concat"}
       /\ header_indices # <<>> /\ AllBlocksEmpty
          => pc1 = "failed" /\ err1 = NoExtractableData
    /\ err1 = NoExtractableData =>
          /\ header_indices # <<>>
          /\ AllBlocksEmpty
          /\ err1 # NoHeaderFound
    /\ err1 = NoHeaderFound => header_indices = <<>>
    /\ ScanFinished =>
          /\ Len(data_blocks) = Cardinality(NonEmptyBlocks)
          /\ Len(scanned) = Len(header_indices)
    /\ NonEmptyBlocks # {} => err1 \notin {NoExtractableData, NoHeaderFound}

\* Two headers, both blocks empty, and the stage has failed
C5_Witness ==
    /\ Len(header_indices) >= 2
    /\ AllBlocksEmpty
    /\ pc1 = "failed"
    /\ err1 = NoExtractableData

\* The fields of the log line behind row j of finished block n
RowTokens(n, j) == Fields(Strip(lines[scanned[n].rows[j]]))

\* A row with exactly six fields, each of them a number
WellFormedRow(toks) ==
    /\ Len(toks) = NumThermoColumns
    /\ \A c \in 1..Len(toks) : FieldClass(toks[c]) \in {"int", "float"}

\* C6: a block with a row that has not exactly six fields, or has a
\* non-numeric field, fails the whole file: no table is returned and nothing
\* of the file reaches the cleaned thermo table.
C6_MalformedRowFails ==
    pc1 \in {"save", "plot", "done"} \/ written1 =>
        \A n \in 1..Len(scanned) : \A j \in 1..Len(scanned[n].rows) :
            WellFormedRow(RowTokens(n, j))

-----------------------------------------------------------------------------
(* Properties of the two stages' output files *)

LoadErrors1 ==
    {ThermoNotFound, NoHeaderFound, NoExtractableData, ParserError, TypeError}

PlotErrors == {PlotFailed, PlotTypeError}

\* C7 as stated: the write is the last step of its stage, so no failure is
\* reported by a stage once it has written its file.
C7_WriteIsLastStep ==
    /\ written1 => err1 = NoError
    /\ written2 => err2 = NoError

\* C7 amended: each stage writes its file only after all its load, parse and
\* validation steps succeeded, and a run in which one of them fails leaves the
\* file unwritten and unchanged; in stage 2 the write is the last step, in
\* stage 1 only the plot follows the write, and a failure of the plot is
\* reported with the cleaned table already written.
C7_WriteAfterValidation ==
    /\ written1 =>
          /\ pc1 \in {"plot", "done", "failed"}
          /\ err1 \in {NoError} \cup PlotErrors
          /\ cleanedFile = File(ToCsv(df, CLEANED_COLUMNS))
    /\ err1 \in LoadErrors1 => ~written1
    /\ err1 \in PlotErrors => written1
    /\ ~written1 => cleanedFile = cleaned0 /\ pc1 \notin {"plot", "done"}
    /\ written2 =>
          /\ pc2 = "done"
          /\ err2 = NoError
          /\ finalFile = File(ToCsv(df_final, FINAL_COLUMNS))
    /\ err2 # NoError => ~written2 /\ pc2 \in {"returned", "crashed"}
    /\ pc2 \in {"returned", "crashed"} => err2 # NoError
    /\ ~written2 => finalFile = final0 /\ pc2 # "done"

\* Stage 1 wrote the cleaned table and then reported the failure of the plot
C7_Witness ==
    /\ written1
    /\ pc1 = "failed"
    /\ err1 = PlotFailed
    /\ pc2 = "returned"
    /\ err2 = StructLoadError

-----------------------------------------------------------------------------
(* Properties of stage 2 *)

Merged == pc2 \in {"save", "done"}

\* A Step of the thermo table with this value
InStepKeys(v) == \E a \in 1..Len(df_thermo) : SameValue(df_thermo[a].Step, v)

\* A Timestep of the structural table with this value
InTimestepKeys(v) == \E b \in 1..Len(df_struct) : SameValue(df_struct[b].Timestep, v)

\* The number of distinct values of a column
DistinctCount(x) ==
    Cardinality({r \in 1..Len(x) : \A q \in 1..(r - 1) : ~SameValue(x[q], x[r])})

DistinctSteps == DistinctCount(Column(df_thermo, "Step"))

DistinctTimesteps == DistinctCount(Column(df_struct, "Timestep"))

MatchingPairs ==
    {p \in (1..Len(df_thermo)) \X (1..Len(df_struct)) :
        SameValue(df_thermo[p[1]].Step, df_struct[p[2]].Timestep)}

\* C3 as stated: every final row has a Step found in both tables, and the
\* final table has at most min(distinct Steps, distinct Timesteps) rows.
C3_JoinAtMostMin ==
    Merged =>
        /\ \A r \in 1..Len(df_final) :
              InStepKeys(df_final[r].Step) /\ InTimestepKeys(df_final[r].Step)
        /\ Len(df_final) <= Min(DistinctSteps, DistinctTimesteps)

\* C3 amended: every final row has a Step found in both tables; the final
\* table has one row per pair of a thermo row and a structural row with equal
\* Step and Timestep, which is at most min(distinct Steps, distinct Timesteps)
\* when no Step repeats in the thermo table and no Timestep repeats in the
\* structural table; steps {0,1000,2000} and timesteps {1000,2000,5000} give
\* the 2 rows of steps 1000 and 2000.
C3_JoinOnePerPair ==
    Merged =>
        /\ \A r \in 1..Len(df_final) :
              InStepKeys(df_final[r].Step) /\ InTimestepKeys(df_final[r].Step)
        /\ Len(df_final) = Cardinality(MatchingPairs)
        /\ DistinctSteps = Len(df_thermo) /\ DistinctTimesteps = Len(df_struct)
              => Len(df_final) <= Min(DistinctSteps, DistinctTimesteps)
        /\ Steps(df_thermo) = <<Num(0), Num(1000), Num(2000)>>
           /\ structFile = File(StructScenario)
              => Steps(df_final) = <<Num(1000), Num(2000)>>

\* Steps {0,1000,2000} joined with timesteps {1000,2000,5000}
C3_Witness ==
    /\ pc2 = "done"
    /\ Steps(df_thermo) = <<Num(0), Num(1000), Num(2000)>>
    /\ structFile = File(StructScenario)
    /\ Len(df_final) = 2

\* (N_bcc + N_fcc + N_hcp) / particle_count of one structural row
FractionOf(s) ==
    DivCell(AddCell(AddCell(s.N_bcc, s.N_fcc), s.N_hcp), NUM_ATOMS)

\* 30/256, the fraction of counts 10, 20, 0
ThirtyOver256 == Float(30, 256)

\* C8: every final row's Fraction_Solid is (N_bcc + N_fcc + N_hcp) / 256 of a
\* structural row whose Timestep is the row's Step; a structural row whose
\* Timestep matches no thermo Step gives no final row; no final row lacks its
\* Fraction_Solid.
C8_FractionSolid ==
    Merged =>
        /\ \A r \in 1..Len(df_final) :
              /\ df_final[r].Fraction_Solid.kind # "nan"
              /\ \E q \in 1..Len(df_struct) :
                    /\ SameValue(df_struct[q].Timestep, df_final[r].Step)
                    /\ df_final[r].Fraction_Solid = FractionOf(df_struct[q])
        /\ \A q \in 1..Len(df_struct) :
              ~InStepKeys(df_struct[q].Timestep)
              => \A r \in 1..Len(df_final) :
                    ~SameValue(df_final[r].Step, df_struct[q].Timestep)
        /\ structFile.content = <<StructHeaderHash, SRowZero>> /\ InStepKeys(Num(0))
              => \A r \in 1..Len(df_final) :
                    df_final[r].Fraction_Solid = ThirtyOver256

====
